---- MODULE Spec2Model ----
(***************************************************************************)
(* Model of the LinkDrop account contract (src/src/lib.rs).                *)
(*                                                                         *)
(* The contract keeps one persisted map, accounts : PublicKey -> Balance.  *)
(* create_account_advanced builds a batch promise on the new account and   *)
(* schedules the callback on_account_created; the host resolves the batch  *)
(* and then runs the callback with exactly one promise result.  The second *)
(* callback, on_account_created_and_claimed, reconciles a create-and-claim *)
(* whose entry point is not part of lib.rs; that entry point and the       *)
(* sponsoring deposit are modelled from the specification.                 *)
(***************************************************************************)
EXTENDS Integers, Sequences, FiniteSets, Bags, TLC

VARIABLES
    accounts,      \* LinkDrop.accounts: the ledger, Keys -> None | Some(balance)
    claims,        \* the bag of claim instances issued so far (one per promise.then)
    sponsored,     \* keys a sponsor has funded (each key funds one drop)
    reserved,      \* ghost: total funds ever reserved (attached or sponsored)
    createdFunds,  \* ghost: funds transferred onto successfully created accounts
    refunded,      \* transfers issued by on_account_created, per receiving account
    deleted,       \* delete_key actions issued on the contract's own account, per key
    last           \* the last invocation: entry point, inputs, return value, receipts

vars == <<accounts, claims, sponsored, reserved, createdFunds, refunded, deleted, last>>

-----------------------------------------------------------------------------
(* Bounds of the model *)

MaxClaims == 2

(* The identities and keys the environment draws from *)

Self       == "linkdrop"                 \* env::current_account_id()
Callers    == {"alice", "bob"}           \* external accounts
AccountIds == Callers \cup {Self}
NewIds     == {"new.linkdrop"}           \* new_account_id
Keys       == {"k1", "k2"}               \* PublicKey
NoKey      == "none"
NoAccount  == "nobody"
Amounts    == {1, 2}                     \* Balance / attached deposit
Deposits   == {<<"alice", 1>>, <<"alice", 2>>, <<"bob", 2>>}  \* caller, attached deposit
Drops      == {<<"k1", 1>>, <<"k2", 2>>}  \* the drops sponsors fund: key, balance
Results    == {"Successful", "Failed"}   \* PromiseResult

-----------------------------------------------------------------------------
(* models::CreateAccountOptions, each field an Option *)

None == <<"None">>
Some(x) == <<"Some", x>>
is_some(o) == o[1] = "Some"
unwrap(o) == o[2]

LimitedKey(pk, allowance, receiver, methods) ==
    [public_key |-> pk, allowance |-> allowance,
     receiver_id |-> receiver, method_names |-> methods]

Options(bytes, full, limited) ==
    [contract_bytes |-> bytes, full_access_keys |-> full, limited_access_keys |-> limited]

NoOptions == Options(None, None, None)

OptionsSet ==
    { NoOptions,
      Options(Some("wasm"), None, None),
      Options(None, Some(<<>>), None),
      Options(None, Some(<<"k1", "k2">>), None),
      Options(None, Some(<<"k2", "k1">>), None),
      Options(None, None, Some(<<LimitedKey("k1", 1, Self, "claim")>>)),
      Options(Some("wasm"), Some(<<"k2">>),
              Some(<<LimitedKey("k2", 2, Self, "claim"), LimitedKey("k1", 1, Self, "claim")>>)) }

-----------------------------------------------------------------------------
(* Promise actions.  Every action is a record of the same shape. *)

Act(on, act, pk, amount, receiver, aux) ==
    [on |-> on, act |-> act, pk |-> pk, amount |-> amount,
     receiver |-> receiver, aux |-> aux]

CreateAccountAct(on)        == Act(on, "create_account", NoKey, 0, NoAccount, "")
TransferAct(on, amount)     == Act(on, "transfer", NoKey, amount, NoAccount, "")
AddFullAccessKeyAct(on, pk) == Act(on, "add_full_access_key", pk, 0, NoAccount, "")
AddAccessKeyAct(on, k)      ==
    Act(on, "add_access_key", k.public_key, k.allowance, k.receiver_id, k.method_names)
DeployContractAct(on, code) == Act(on, "deploy_contract", NoKey, 0, NoAccount, code)
DeleteKeyAct(on, pk)        == Act(on, "delete_key", pk, 0, NoAccount, "")
ThenAct(method, pred, amount) == Act(Self, "then", NoKey, amount, pred, method)

(* for key in full_access_keys { promise = promise.add_full_access_key(key) } *)
RECURSIVE AddFullAccessKeys(_, _)
AddFullAccessKeys(on, keys) ==
    IF keys = <<>> THEN <<>>
    ELSE <<AddFullAccessKeyAct(on, Head(keys))>> \o AddFullAccessKeys(on, Tail(keys))

(* for key_info in limited_access_keys { promise = promise.add_access_key(..) } *)
RECURSIVE AddAccessKeys(_, _)
AddAccessKeys(on, key_infos) ==
    IF key_infos = <<>> THEN <<>>
    ELSE <<AddAccessKeyAct(on, Head(key_infos))>> \o AddAccessKeys(on, Tail(key_infos))

-----------------------------------------------------------------------------
(* The outcome of one invocation *)

Panic == "panic"

Outcome(ret, receipts) == [ret |-> ret, receipts |-> receipts]

(* What is recorded of an invocation: the entry point, the environment's   *)
(* inputs (caller, signer key, promise results), the arguments,             *)
(* the return value and the receipts it issued.                             *)
Last(op, caller, pk, pred, amount, results, options, out) ==
    [op |-> op, caller |-> caller, pk |-> pk, pred |-> pred, amount |-> amount,
     results |-> results, options |-> options,
     ret |-> out.ret, receipts |-> out.receipts]

(* A claim instance: one creation request with its scheduled continuation.  *)
(* st: RequestIssued -> RequestResolved -> ResolvedSuccess | ResolvedFailure *)
Instance(kind, pred, amount, signer) ==
    [kind |-> kind, pred |-> pred, amount |-> amount, signer |-> signer,
     st |-> "RequestIssued", result |-> "NotReady"]

NoInstance == Instance("none", NoAccount, 0, NoKey)

Issue(b)     == claims (+) SetToBag({b})
Move(b, c)   == (claims (-) SetToBag({b})) (+) SetToBag({c})
NumClaims    == BagCardinality(claims)
InstancesIn(sts) == { b \in BagToSet(claims) : b.st \in sts }

Init ==
    /\ accounts = [k \in Keys |-> None]
    /\ claims = EmptyBag
    /\ sponsored = {}
    /\ reserved = 0
    /\ createdFunds = 0
    /\ refunded = [a \in AccountIds |-> 0]
    /\ deleted = [k \in Keys |-> 0]
    /\ last = Last("new", NoAccount, NoKey, NoAccount, 0, <<>>, NoOptions, Outcome("none", <<>>))

-----------------------------------------------------------------------------
(* UnorderedMap operations used by the contract *)

MapGet(m, k) == m[k]
MapInsert(m, k, v) == [m EXCEPT ![k] = Some(v)]
MapRemove(m, k) == [m EXCEPT ![k] = None]

-----------------------------------------------------------------------------
(* fn is_promise_success(): asserts exactly one result, then tests it *)

(* Mutant: any result counts as a success *)
is_promise_success_ignores_failure(results) ==
    IF Len(results) # 1 THEN Panic ELSE "true"

(* Mutant: the number of results is not asserted *)
is_promise_success_unchecked(results) ==
    IF Len(results) >= 1 /\ results[1] = "Successful" THEN "true" ELSE "false"

is_promise_success(results) ==
    IF Len(results) # 1 THEN Panic
    ELSE IF results[1] = "Successful" THEN "true" ELSE "false"

-----------------------------------------------------------------------------
(* create_account_advanced *)

(* Mutant: the limited access keys are added before the full access keys *)
BuildPromise_limited_first(new_account_id, amount, options) ==
    <<CreateAccountAct(new_account_id), TransferAct(new_account_id, amount)>>
    \o (IF is_some(options.limited_access_keys)
        THEN AddAccessKeys(new_account_id, unwrap(options.limited_access_keys))
        ELSE <<>>)
    \o (IF is_some(options.full_access_keys)
        THEN AddFullAccessKeys(new_account_id, unwrap(options.full_access_keys))
        ELSE <<>>)
    \o (IF is_some(options.contract_bytes)
        THEN <<DeployContractAct(new_account_id, unwrap(options.contract_bytes))>>
        ELSE <<>>)

BuildPromise(new_account_id, amount, options) ==
    <<CreateAccountAct(new_account_id), TransferAct(new_account_id, amount)>>
    \o (IF is_some(options.full_access_keys)
        THEN AddFullAccessKeys(new_account_id, unwrap(options.full_access_keys))
        ELSE <<>>)
    \o (IF is_some(options.limited_access_keys)
        THEN AddAccessKeys(new_account_id, unwrap(options.limited_access_keys))
        ELSE <<>>)
    \o (IF is_some(options.contract_bytes)
        THEN <<DeployContractAct(new_account_id, unwrap(options.contract_bytes))>>
        ELSE <<>>)

(* Mutant: the options are not asserted to hold anything *)
create_account_advanced_body_no_check(predecessor, deposit, new_account_id, options) ==
    Outcome("promise",
            BuildPromise(new_account_id, deposit, options)
            \o <<ThenAct("on_account_created", predecessor, deposit)>>)

(* Mutant: the continuation is given the contract's own account as the     *)
(* account to refund                                                       *)
create_account_advanced_body_threads_self(predecessor, deposit, new_account_id, options) ==
    LET is_some_option == \/ is_some(options.contract_bytes)
                          \/ is_some(options.full_access_keys)
                          \/ is_some(options.limited_access_keys)
        amount == deposit
    IN IF ~is_some_option THEN Outcome(Panic, <<>>)
       ELSE Outcome("promise",
                    BuildPromise(new_account_id, amount, options)
                    \o <<ThenAct("on_account_created", Self, amount)>>)

create_account_advanced_body(predecessor, deposit, new_account_id, options) ==
    LET is_some_option == \/ is_some(options.contract_bytes)
                          \/ is_some(options.full_access_keys)
                          \/ is_some(options.limited_access_keys)
        amount == deposit
    IN IF ~is_some_option THEN Outcome(Panic, <<>>)
       ELSE Outcome("promise",
                    BuildPromise(new_account_id, amount, options)
                    \o <<ThenAct("on_account_created", predecessor, amount)>>)

(* The continuation a receipt list schedules: its last action *)
Scheduled(receipts) == receipts[Len(receipts)]

create_account_advanced ==
    \E call \in Deposits, id \in NewIds, options \in OptionsSet :
        LET caller == call[1]
            deposit == call[2]
            out == create_account_advanced_body(caller, deposit, id, options)
        IN
        /\ out.ret # Panic => NumClaims < MaxClaims
        /\ last' = Last("create_account_advanced", caller, NoKey, NoAccount, deposit, <<>>,
                        options, out)
        /\ IF out.ret = Panic
           THEN UNCHANGED <<claims, reserved>>
           ELSE /\ claims' = Issue(Instance("advanced", Scheduled(out.receipts).receiver,
                                             Scheduled(out.receipts).amount, NoKey))
                /\ reserved' = reserved + deposit
        /\ UNCHANGED <<accounts, sponsored, createdFunds, refunded, deleted>>

-----------------------------------------------------------------------------
(* The host resolves the batch promise of a claim instance: all of its      *)
(* actions apply (the funds are on the new account) or none does.           *)

ResolveRequest ==
    \E b \in InstancesIn({"RequestIssued"}), r \in Results :
        /\ claims' = Move(b, [b EXCEPT !.st = "RequestResolved", !.result = r])
        /\ createdFunds' = IF r = "Successful" THEN createdFunds + b.amount
                           ELSE createdFunds
        /\ last' = Last("resolve", NoAccount, NoKey, NoAccount, 0, <<>>, NoOptions,
                        Outcome("none", <<>>))
        /\ UNCHANGED <<accounts, sponsored, reserved, refunded, deleted>>

-----------------------------------------------------------------------------
(* The invocations of a continuation entry point the host can deliver:      *)
(* the callback scheduled by promise.then for a resolved request (caller is *)
(* the contract, exactly one result), or a call made directly.  Another     *)
(* account can call with any results; a call with the contract as caller    *)
(* and exactly one result is always a callback the contract scheduled.      *)

Invocation(caller, results, inst, pred, amount, signer) ==
    [caller |-> caller, results |-> results, inst |-> inst,
     pred |-> pred, amount |-> amount, signer |-> signer]

(* Mutant: the continuation is scheduled beside the request, not behind it *)
ScheduledCallbacks_not_after(kind) ==
    { Invocation(Self, <<b.result>>, b, b.pred, b.amount, b.signer) :
        b \in { c \in InstancesIn({"RequestIssued", "RequestResolved"}) : c.kind = kind } }

ScheduledCallbacks(kind) ==
    { Invocation(Self, <<b.result>>, b, b.pred, b.amount, b.signer) :
        b \in { c \in InstancesIn({"RequestResolved"}) : c.kind = kind } }

DirectCalls(kind) ==
    LET p == IF kind = "advanced" THEN "bob" ELSE NoAccount
        k == IF kind = "claim" THEN "k1" ELSE NoKey
    IN { Invocation("bob", <<r>>, NoInstance, p, 1, k) : r \in Results }
       \cup { Invocation(Self, rs, NoInstance, p, 1, k) :
                 rs \in {<<>>, <<"Failed", "Successful">>} }

(* The instances after the continuation of instance b returned ret *)
Settle(b, ret) ==
    IF b = NoInstance \/ ret = Panic THEN claims
    ELSE Move(b, [b EXCEPT !.st = IF ret = "true" THEN "ResolvedSuccess"
                                  ELSE "ResolvedFailure"])

-----------------------------------------------------------------------------
(* on_account_created *)

(* Mutant: the failure branch returns false without sending the funds back *)
on_account_created_body_no_refund(caller, results, predecessor_account_id, amount) ==
    IF caller # Self THEN Outcome(Panic, <<>>)
    ELSE LET creation_succeeded == is_promise_success(results) IN
         IF creation_succeeded = Panic THEN Outcome(Panic, <<>>)
         ELSE Outcome(creation_succeeded, <<>>)

(* Mutant: the refund goes to the caller of the callback *)
on_account_created_body_refunds_caller(caller, results, predecessor_account_id, amount) ==
    IF caller # Self THEN Outcome(Panic, <<>>)
    ELSE LET creation_succeeded == is_promise_success(results) IN
         IF creation_succeeded = Panic THEN Outcome(Panic, <<>>)
         ELSE IF creation_succeeded = "false"
         THEN Outcome("false", <<TransferAct(caller, amount)>>)
         ELSE Outcome("true", <<>>)

(* Mutant: the refund is issued whatever the result *)
on_account_created_body_refund_always(caller, results, predecessor_account_id, amount) ==
    IF caller # Self THEN Outcome(Panic, <<>>)
    ELSE LET creation_succeeded == is_promise_success(results) IN
         IF creation_succeeded = Panic THEN Outcome(Panic, <<>>)
         ELSE Outcome(creation_succeeded, <<TransferAct(predecessor_account_id, amount)>>)

on_account_created_body(caller, results, predecessor_account_id, amount) ==
    IF caller # Self THEN Outcome(Panic, <<>>)
    ELSE LET creation_succeeded == is_promise_success(results) IN
         IF creation_succeeded = Panic THEN Outcome(Panic, <<>>)
         ELSE IF creation_succeeded = "false"
         THEN Outcome("false", <<TransferAct(predecessor_account_id, amount)>>)
         ELSE Outcome("true", <<>>)

RECURSIVE Transferred(_, _)
Transferred(receipts, to) ==
    IF receipts = <<>> THEN 0
    ELSE (IF Head(receipts).act = "transfer" /\ Head(receipts).on = to
          THEN Head(receipts).amount ELSE 0) + Transferred(Tail(receipts), to)

on_account_created_call(v) ==
    LET out == on_account_created_body(v.caller, v.results, v.pred, v.amount) IN
    /\ last' = Last("on_account_created", v.caller, NoKey, v.pred, v.amount,
                    v.results, NoOptions, out)
    /\ refunded' = [a \in AccountIds |-> refunded[a] + Transferred(out.receipts, a)]
    /\ claims' = Settle(v.inst, out.ret)
    /\ UNCHANGED <<accounts, sponsored, reserved, createdFunds, deleted>>

on_account_created ==
    \E v \in ScheduledCallbacks("advanced") \cup DirectCalls("advanced") :
        on_account_created_call(v)

-----------------------------------------------------------------------------
(* on_account_created_and_claimed *)

(* Mutant: the failure branch returns false without restoring the ledger *)
on_account_created_and_claimed_body_no_restore(caller, results, signer_pk, amount, ledger) ==
    IF caller # Self THEN [out |-> Outcome(Panic, <<>>), ledger |-> ledger]
    ELSE LET creation_succeeded == is_promise_success(results) IN
         IF creation_succeeded = Panic
         THEN [out |-> Outcome(Panic, <<>>), ledger |-> ledger]
         ELSE IF creation_succeeded = "true"
         THEN [out |-> Outcome("true", <<DeleteKeyAct(Self, signer_pk)>>),
               ledger |-> ledger]
         ELSE [out |-> Outcome("false", <<>>), ledger |-> ledger]

(* Mutant: the success branch returns true without deleting the key *)
on_account_created_and_claimed_body_no_delete(caller, results, signer_pk, amount, ledger) ==
    IF caller # Self THEN [out |-> Outcome(Panic, <<>>), ledger |-> ledger]
    ELSE LET creation_succeeded == is_promise_success(results) IN
         IF creation_succeeded = Panic
         THEN [out |-> Outcome(Panic, <<>>), ledger |-> ledger]
         ELSE IF creation_succeeded = "true"
         THEN [out |-> Outcome("true", <<>>), ledger |-> ledger]
         ELSE [out |-> Outcome("false", <<>>),
               ledger |-> MapInsert(ledger, signer_pk, amount)]

(* Mutant: the amount is put back whatever the result *)
on_account_created_and_claimed_body_restore_always(caller, results, signer_pk, amount, ledger) ==
    IF caller # Self THEN [out |-> Outcome(Panic, <<>>), ledger |-> ledger]
    ELSE LET creation_succeeded == is_promise_success(results) IN
         IF creation_succeeded = Panic
         THEN [out |-> Outcome(Panic, <<>>), ledger |-> ledger]
         ELSE IF creation_succeeded = "true"
         THEN [out |-> Outcome("true", <<DeleteKeyAct(Self, signer_pk)>>),
               ledger |-> MapInsert(ledger, signer_pk, amount)]
         ELSE [out |-> Outcome("false", <<>>),
               ledger |-> MapInsert(ledger, signer_pk, amount)]

(* Mutant: the caller of the callback is not asserted to be the contract *)
on_account_created_and_claimed_body_no_auth(caller, results, signer_pk, amount, ledger) ==
    LET creation_succeeded == is_promise_success(results) IN
    IF creation_succeeded = Panic
    THEN [out |-> Outcome(Panic, <<>>), ledger |-> ledger]
    ELSE IF creation_succeeded = "true"
    THEN [out |-> Outcome("true", <<DeleteKeyAct(Self, signer_pk)>>),
          ledger |-> ledger]
    ELSE [out |-> Outcome("false", <<>>),
          ledger |-> MapInsert(ledger, signer_pk, amount)]

(* Mutant: the failure branch puts back one unit less than it was given *)
on_account_created_and_claimed_body_restore_short(caller, results, signer_pk, amount, ledger) ==
    IF caller # Self THEN [out |-> Outcome(Panic, <<>>), ledger |-> ledger]
    ELSE LET creation_succeeded == is_promise_success(results) IN
         IF creation_succeeded = Panic
         THEN [out |-> Outcome(Panic, <<>>), ledger |-> ledger]
         ELSE IF creation_succeeded = "true"
         THEN [out |-> Outcome("true", <<DeleteKeyAct(Self, signer_pk)>>),
               ledger |-> ledger]
         ELSE [out |-> Outcome("false", <<>>),
               ledger |-> MapInsert(ledger, signer_pk, amount - 1)]

(* Mutant: the failure branch adds the amount to the entry it finds *)
on_account_created_and_claimed_body_restore_adds(caller, results, signer_pk, amount, ledger) ==
    IF caller # Self THEN [out |-> Outcome(Panic, <<>>), ledger |-> ledger]
    ELSE LET creation_succeeded == is_promise_success(results) IN
         IF creation_succeeded = Panic
         THEN [out |-> Outcome(Panic, <<>>), ledger |-> ledger]
         ELSE IF creation_succeeded = "true"
         THEN [out |-> Outcome("true", <<DeleteKeyAct(Self, signer_pk)>>),
               ledger |-> ledger]
         ELSE [out |-> Outcome("false", <<>>),
               ledger |-> MapInsert(ledger, signer_pk,
                                    amount + (IF is_some(MapGet(ledger, signer_pk))
                                              THEN unwrap(MapGet(ledger, signer_pk))
                                              ELSE 0))]

(* Mutant: the failure branch rebuilds the ledger with the restored entry   *)
(* alone                                                                    *)
on_account_created_and_claimed_body_restore_clears(caller, results, signer_pk, amount, ledger) ==
    IF caller # Self THEN [out |-> Outcome(Panic, <<>>), ledger |-> ledger]
    ELSE LET creation_succeeded == is_promise_success(results) IN
         IF creation_succeeded = Panic
         THEN [out |-> Outcome(Panic, <<>>), ledger |-> ledger]
         ELSE IF creation_succeeded = "true"
         THEN [out |-> Outcome("true", <<DeleteKeyAct(Self, signer_pk)>>),
               ledger |-> ledger]
         ELSE [out |-> Outcome("false", <<>>),
               ledger |-> [k \in Keys |-> IF k = signer_pk THEN Some(amount) ELSE None]]

(* Mutant: the success branch takes the entry of the key out of the ledger *)
on_account_created_and_claimed_body_remove_on_success(caller, results, signer_pk, amount, ledger) ==
    IF caller # Self THEN [out |-> Outcome(Panic, <<>>), ledger |-> ledger]
    ELSE LET creation_succeeded == is_promise_success(results) IN
         IF creation_succeeded = Panic
         THEN [out |-> Outcome(Panic, <<>>), ledger |-> ledger]
         ELSE IF creation_succeeded = "true"
         THEN [out |-> Outcome("true", <<DeleteKeyAct(Self, signer_pk)>>),
               ledger |-> MapRemove(ledger, signer_pk)]
         ELSE [out |-> Outcome("false", <<>>),
               ledger |-> MapInsert(ledger, signer_pk, amount)]

on_account_created_and_claimed_body(caller, results, signer_pk, amount, ledger) ==
    IF caller # Self THEN [out |-> Outcome(Panic, <<>>), ledger |-> ledger]
    ELSE LET creation_succeeded == is_promise_success(results) IN
         IF creation_succeeded = Panic
         THEN [out |-> Outcome(Panic, <<>>), ledger |-> ledger]
         ELSE IF creation_succeeded = "true"
         THEN [out |-> Outcome("true", <<DeleteKeyAct(Self, signer_pk)>>),
               ledger |-> ledger]
         ELSE [out |-> Outcome("false", <<>>),
               ledger |-> MapInsert(ledger, signer_pk, amount)]

RECURSIVE KeyDeletions(_, _)
KeyDeletions(receipts, pk) ==
    IF receipts = <<>> THEN 0
    ELSE (IF Head(receipts).act = "delete_key" /\ Head(receipts).on = Self
             /\ Head(receipts).pk = pk THEN 1 ELSE 0)
         + KeyDeletions(Tail(receipts), pk)

on_account_created_and_claimed_call(v) ==
    LET r == on_account_created_and_claimed_body(v.caller, v.results, v.signer,
                                                 v.amount, accounts) IN
    /\ last' = Last("on_account_created_and_claimed", v.caller, v.signer, NoAccount,
                    v.amount, v.results, NoOptions, r.out)
    /\ accounts' = r.ledger
    /\ deleted' = [k \in Keys |-> deleted[k] + KeyDeletions(r.out.receipts, k)]
    /\ claims' = Settle(v.inst, r.out.ret)
    /\ UNCHANGED <<sponsored, reserved, createdFunds, refunded>>

on_account_created_and_claimed ==
    \E v \in ScheduledCallbacks("claim") \cup DirectCalls("claim") :
        on_account_created_and_claimed_call(v)

-----------------------------------------------------------------------------
(* get_key_balance and get_key_information *)

(* Mutant: the lookup of get_key_information aborts on a missing key *)
get_key_information_body_expect(ledger, key) ==
    IF is_some(MapGet(ledger, key)) THEN [ret |-> "Ok", balance |-> unwrap(MapGet(ledger, key))]
    ELSE [ret |-> Panic, balance |-> 0]

get_key_balance_body(ledger, key) ==
    IF is_some(MapGet(ledger, key)) THEN [ret |-> "value", balance |-> unwrap(MapGet(ledger, key))]
    ELSE [ret |-> Panic, balance |-> 0]

get_key_information_body(ledger, key) ==
    IF is_some(MapGet(ledger, key)) THEN [ret |-> "Ok", balance |-> unwrap(MapGet(ledger, key))]
    ELSE [ret |-> "Err: Key is missing", balance |-> 0]

(* Mutant: the lookup of get_key_balance takes the entry out of the ledger *)
get_key_balance_consuming ==
    \E key \in Keys :
        LET r == get_key_balance_body(accounts, key) IN
        /\ last' = Last("get_key_balance", NoAccount, key, NoAccount, r.balance, <<>>,
                        NoOptions, Outcome(r.ret, <<>>))
        /\ accounts' = MapRemove(accounts, key)
        /\ UNCHANGED <<claims, sponsored, reserved, createdFunds, refunded, deleted>>

get_key_balance ==
    \E key \in Keys :
        LET r == get_key_balance_body(accounts, key) IN
        /\ last' = Last("get_key_balance", NoAccount, key, NoAccount, r.balance, <<>>,
                        NoOptions, Outcome(r.ret, <<>>))
        /\ UNCHANGED <<accounts, claims, sponsored, reserved, createdFunds, refunded, deleted>>

get_key_information ==
    \E key \in Keys :
        LET r == get_key_information_body(accounts, key) IN
        /\ last' = Last("get_key_information", NoAccount, key, NoAccount, r.balance, <<>>,
                        NoOptions, Outcome(r.ret, <<>>))
        /\ UNCHANGED <<accounts, claims, sponsored, reserved, createdFunds, refunded, deleted>>

-----------------------------------------------------------------------------
(* The sponsoring deposit and the create-and-claim entry point are not in   *)
(* lib.rs.  They follow the specification: a sponsor inserts a fresh key    *)
(* with a balance; a claim signed by key K takes K's balance out of the     *)
(* ledger, issues the creation request with it and schedules                *)
(* on_account_created_and_claimed(amount).                                  *)

send ==
    \E key \in Keys \ sponsored, amount \in Amounts :
        /\ <<key, amount>> \in Drops
        /\ accounts' = MapInsert(accounts, key, amount)
        /\ sponsored' = sponsored \cup {key}
        /\ reserved' = reserved + amount
        /\ last' = Last("send", NoAccount, key, NoAccount, amount, <<>>, NoOptions,
                        Outcome("none", <<>>))
        /\ UNCHANGED <<claims, createdFunds, refunded, deleted>>

create_account_and_claim_body(signer_pk, new_account_id, ledger) ==
    IF ~is_some(MapGet(ledger, signer_pk))
    THEN [out |-> Outcome(Panic, <<>>), ledger |-> ledger]
    ELSE LET amount == unwrap(MapGet(ledger, signer_pk)) IN
         [out |-> Outcome("promise",
                          <<CreateAccountAct(new_account_id),
                            TransferAct(new_account_id, amount),
                            ThenAct("on_account_created_and_claimed", NoAccount, amount)>>),
          ledger |-> MapRemove(ledger, signer_pk)]

create_account_and_claim ==
    \E key \in Keys, id \in NewIds :
        LET r == create_account_and_claim_body(key, id, accounts) IN
        /\ r.out.ret # Panic => NumClaims < MaxClaims
        /\ last' = Last("create_account_and_claim", Self, key, NoAccount, 0, <<>>,
                        NoOptions, r.out)
        /\ accounts' = r.ledger
        /\ claims' = IF r.out.ret = Panic THEN claims
                     ELSE Issue(Instance("claim", NoAccount,
                                         Scheduled(r.out.receipts).amount, key))
        /\ UNCHANGED <<sponsored, reserved, createdFunds, refunded, deleted>>

-----------------------------------------------------------------------------

Next ==
    \/ create_account_advanced
    \/ ResolveRequest
    \/ on_account_created
    \/ on_account_created_and_claimed
    \/ get_key_balance
    \/ get_key_information
    \/ send
    \/ create_account_and_claim

Spec == Init /\ [][Next]_vars

(* The host runs every scheduled receipt: a request that was issued is      *)
(* resolved, and the continuation scheduled behind it is then executed.     *)
ScheduledStep ==
    \/ ResolveRequest
    \/ \E v \in ScheduledCallbacks("advanced") : on_account_created_call(v)
    \/ \E v \in ScheduledCallbacks("claim") : on_account_created_and_claimed_call(v)

FairSpec == Spec /\ WF_vars(ScheduledStep)

-----------------------------------------------------------------------------
(* lib.rs alone.  The entry point that schedules                            *)
(* on_account_created_and_claimed is not in lib.rs, so nothing is assumed   *)
(* of it but the interface declared in trait ExtLinkDrop: a creation        *)
(* request is issued in a call signed by some key, and the continuation is  *)
(* scheduled behind it with some amount.  The ledger is written by lib.rs   *)
(* only.                                                                    *)

ClaimArgs == {<<"k1", 1>>, <<"k1", 2>>, <<"k2", 2>>}

schedule_on_account_created_and_claimed ==
    \E arg \in ClaimArgs :
        /\ NumClaims < MaxClaims
        /\ claims' = Issue(Instance("claim", NoAccount, arg[2], arg[1]))
        /\ last' = Last("schedule", Self, arg[1], NoAccount, arg[2], <<>>, NoOptions,
                        Outcome("promise",
                                <<ThenAct("on_account_created_and_claimed", NoAccount, arg[2])>>))
        /\ UNCHANGED <<accounts, sponsored, reserved, createdFunds, refunded, deleted>>

NextCode ==
    \/ create_account_advanced
    \/ ResolveRequest
    \/ on_account_created
    \/ on_account_created_and_claimed
    \/ get_key_balance
    \/ get_key_information
    \/ schedule_on_account_created_and_claimed

SpecCode == Init /\ [][NextCode]_vars

-----------------------------------------------------------------------------
(* Accounting over the state *)

RECURSIVE SumLedger(_, _)
SumLedger(ledger, ks) ==
    IF ks = {} THEN 0
    ELSE LET k == CHOOSE x \in ks : TRUE IN
         (IF is_some(ledger[k]) THEN unwrap(ledger[k]) ELSE 0)
         + SumLedger(ledger, ks \ {k})

RECURSIVE SumMap(_, _)
SumMap(f, ks) ==
    IF ks = {} THEN 0
    ELSE LET k == CHOOSE x \in ks : TRUE IN f[k] + SumMap(f, ks \ {k})

(* The funds, and the number, of the instances of the bag that are in bs *)
RECURSIVE FundsOf(_)
FundsOf(bs) ==
    IF bs = {} THEN 0
    ELSE LET b == CHOOSE x \in bs : TRUE IN
         b.amount * CopiesIn(b, claims) + FundsOf(bs \ {b})

RECURSIVE CountOf(_)
CountOf(bs) ==
    IF bs = {} THEN 0
    ELSE LET b == CHOOSE x \in bs : TRUE IN CopiesIn(b, claims) + CountOf(bs \ {b})

LedgerSum == SumLedger(accounts, Keys)
RefundSum == SumMap(refunded, AccountIds)

Terminal == {"ResolvedSuccess", "ResolvedFailure"}
Pending  == InstancesIn({"RequestIssued", "RequestResolved"})

(* Funds of requests whose outcome has not been reconciled yet: the request *)
(* is unresolved, or it failed and its continuation has not run.            *)
InFlight ==
    FundsOf({ b \in Pending : b.result # "Successful" })

-----------------------------------------------------------------------------
(* C1 (as stated): in every reachable state the ledger balances, the funds  *)
(* on created accounts and the refunds issued add up to the funds reserved. *)
C1_ConservationEveryState ==
    LedgerSum + createdFunds + RefundSum = reserved

(* C1 (amended): the ledger balances, the funds on created accounts, the    *)
(* refunds issued and the funds of requests not yet reconciled add up to    *)
(* the funds reserved; with no request outstanding the first three do.      *)
C1_Conservation ==
    /\ LedgerSum + createdFunds + RefundSum + InFlight = reserved
    /\ Pending = {} => LedgerSum + createdFunds + RefundSum = reserved

(* Both flows have run to both outcomes and funds sit in all three places *)
C1_Witness ==
    /\ Pending = {}
    /\ NumClaims = MaxClaims
    /\ createdFunds > 0
    /\ RefundSum + LedgerSum > 0
    /\ last.ret = "false"

-----------------------------------------------------------------------------
(* Where the funds of the instances are *)

ClaimsOf(k, sts) == { b \in InstancesIn(sts) : b.kind = "claim" /\ b.signer = k }
AdvancedOf(p, sts) == { b \in InstancesIn(sts) : b.kind = "advanced" /\ b.pred = p }

(* The balance a sponsor reserved under key k *)
DropOf(k) == (CHOOSE d \in Drops : d[1] = k)[2]

(* A resolved instance succeeded exactly if its creation request did *)
OutcomeMatchesResult ==
    \A b \in InstancesIn(Terminal) :
        (b.st = "ResolvedSuccess") <=> (b.result = "Successful")

(* success: the funds are on the new account *)
SuccessOnNewAccount ==
    createdFunds = FundsOf({ b \in BagToSet(claims) : b.result = "Successful" })

(* failed advanced-create: the funds went back to the original caller *)
FailedAdvancedRefunded ==
    \A p \in AccountIds : refunded[p] = FundsOf(AdvancedOf(p, {"ResolvedFailure"}))

(* failed create-and-claim: the funds are in the ledger under the claiming  *)
(* key, unless the key was claimed again since                              *)
FailedClaimInLedger ==
    \A k \in Keys :
        ClaimsOf(k, {"ResolvedFailure"}) # {}
        /\ ClaimsOf(k, {"RequestIssued", "RequestResolved", "ResolvedSuccess"}) = {}
        => accounts[k] = Some(DropOf(k))

(* funds that reached a new account are in no ledger entry *)
SuccessNotInLedger ==
    \A k \in Keys : ClaimsOf(k, {"ResolvedSuccess"}) # {} => accounts[k] = None

(* C2: every claim instance whose request was issued is eventually resolved *)
(* (success or failure): whenever instances are outstanding, a state with   *)
(* none outstanding follows, and instances never leave the bag.  The funds  *)
(* of a resolved instance are in exactly one place: the new account, the    *)
(* original caller, or the ledger.                                          *)
C2_NeverStranded ==
    /\ (Pending # {}) ~> (Pending = {})
    /\ [](/\ OutcomeMatchesResult
          /\ SuccessOnNewAccount
          /\ FailedAdvancedRefunded
          /\ FailedClaimInLedger
          /\ SuccessNotInLedger)

(* A failed create-and-claim and a successful creation have both resolved *)
C2_Witness ==
    /\ Pending = {}
    /\ \E k \in Keys : ClaimsOf(k, {"ResolvedFailure"}) # {} /\ is_some(accounts[k])
    /\ InstancesIn({"ResolvedSuccess"}) # {}

-----------------------------------------------------------------------------
(* The state a rejected invocation must leave alone *)
committed == <<accounts, claims, sponsored, reserved, createdFunds, refunded, deleted>>

Callbacks == {"on_account_created", "on_account_created_and_claimed"}

(* The last invocation was entry point op, run as a scheduled callback of   *)
(* the contract with the single promise result r                            *)
RanCallback(op, r) ==
    last.op = op /\ last.caller = Self /\ last.results = <<r>>

-----------------------------------------------------------------------------
(* C3: when on_account_created_and_claimed(amount) runs with a failed       *)
(* creation result for a claim signed by key K, the ledger afterwards holds *)
(* K with exactly the original amount, the callback returns false and no    *)
(* delete_key is issued.                                                    *)
C3_FailureRestoresLedger ==
    RanCallback("on_account_created_and_claimed", "Failed") =>
        /\ accounts[last.pk] = Some(last.amount)
        /\ last.amount = DropOf(last.pk)
        /\ last.ret = "false"
        /\ last.receipts = <<>>

C3_Witness ==
    /\ RanCallback("on_account_created_and_claimed", "Failed")
    /\ last.pk = "k2"
    /\ accounts["k2"] = Some(2)
    /\ accounts["k1"] = Some(1)

-----------------------------------------------------------------------------
(* C4: when on_account_created_and_claimed runs with a successful creation  *)
(* result for a claim signed by key K it returns true and issues one        *)
(* delete_key of K on the contract's own account; over an execution K is    *)
(* deleted exactly once per successful claim instance.                      *)
C4_SuccessDeletesKeyOnce ==
    /\ RanCallback("on_account_created_and_claimed", "Successful") =>
          /\ last.ret = "true"
          /\ last.receipts = <<DeleteKeyAct(Self, last.pk)>>
    /\ \A k \in Keys : deleted[k] = CountOf(ClaimsOf(k, {"ResolvedSuccess"}))

C4_Witness ==
    /\ RanCallback("on_account_created_and_claimed", "Successful")
    /\ deleted[last.pk] = 1
    /\ NumClaims = MaxClaims

-----------------------------------------------------------------------------
(* C5 (as stated): a key is in the ledger exactly if the funds reserved     *)
(* under it have not yet been successfully claimed.                         *)
C5_MembershipAsStated ==
    \A k \in Keys :
        is_some(accounts[k]) <=>
            (k \in sponsored /\ ClaimsOf(k, {"ResolvedSuccess"}) = {})

(* C5 (amended): a key is in the ledger, with the balance reserved under    *)
(* it, exactly if that balance has neither been successfully claimed nor is *)
(* attached to a claim whose callback has not run; after a successful       *)
(* create-and-claim for K, get_key_balance(K) fails and                     *)
(* get_key_information(K) returns the error.                                *)
C5_Membership ==
    /\ \A k \in Keys :
          /\ is_some(accounts[k]) <=>
                (/\ k \in sponsored
                 /\ ClaimsOf(k, {"RequestIssued", "RequestResolved",
                                 "ResolvedSuccess"}) = {})
          /\ is_some(accounts[k]) => accounts[k] = Some(DropOf(k))
    /\ last.op \in {"get_key_balance", "get_key_information"}
       /\ ClaimsOf(last.pk, {"ResolvedSuccess"}) # {}
       => last.ret = IF last.op = "get_key_balance" THEN Panic
                     ELSE "Err: Key is missing"

C5_Witness ==
    /\ last.op = "get_key_information"
    /\ ClaimsOf(last.pk, {"ResolvedSuccess"}) # {}
    /\ last.ret = "Err: Key is missing"
    /\ \E k \in Keys : is_some(accounts[k])

-----------------------------------------------------------------------------
(* C6: when on_account_created(predecessor, amount) runs, called by the     *)
(* contract, with a failed creation result, it issues exactly one transfer, *)
(* of exactly amount, to predecessor, nothing else, and returns false.      *)
C6_FailureRefundsPredecessor ==
    RanCallback("on_account_created", "Failed") =>
        /\ last.receipts = <<TransferAct(last.pred, last.amount)>>
        /\ last.ret = "false"

C6_Witness ==
    /\ RanCallback("on_account_created", "Failed")
    /\ last.pred = "alice"
    /\ last.amount = 2
    /\ refunded = [a \in AccountIds |-> IF a = "alice" THEN 2 ELSE 0]

-----------------------------------------------------------------------------
(* C7: create_account_advanced and on_account_created leave the ledger      *)
(* unchanged for every input and outcome; on a successful creation the      *)
(* callback returns true and issues no transfer.                            *)
C7_AdvancedFlowLeavesLedger ==
    /\ [][last'.op \in {"create_account_advanced", "on_account_created"}
            => accounts' = accounts]_vars
    /\ [](RanCallback("on_account_created", "Successful") =>
            last.ret = "true" /\ last.receipts = <<>>)

C7_Witness ==
    /\ RanCallback("on_account_created", "Successful")
    /\ last.ret = "true"
    /\ LedgerSum > 0

-----------------------------------------------------------------------------
(* C8: a continuation entry point invoked by any identity other than the    *)
(* contract is rejected, whatever the promise result, and changes nothing:  *)
(* no ledger write, no transfer, no key deletion.                           *)
C8_CallbackAuthorization ==
    /\ [][last'.op \in Callbacks /\ last'.caller # Self
            => UNCHANGED committed]_vars
    /\ [](last.op \in Callbacks /\ last.caller # Self =>
            last.ret = Panic /\ last.receipts = <<>>)

C8_Witness ==
    /\ last.op = "on_account_created_and_claimed"
    /\ last.caller = "bob"
    /\ last.results = <<"Failed">>
    /\ last.ret = Panic
    /\ accounts[last.pk] = None

-----------------------------------------------------------------------------
(* C9: a continuation that runs with a number of promise results other     *)
(* than one aborts and commits nothing: no ledger write, no refund, no key  *)
(* deletion, and no instance is settled or scheduled again.                 *)
C9_ExactlyOneResult ==
    /\ [][last'.op \in Callbacks /\ Len(last'.results) # 1
            => UNCHANGED committed]_vars
    /\ [](last.op \in Callbacks /\ Len(last.results) # 1 =>
            last.ret = Panic /\ last.receipts = <<>>)

C9_Witness ==
    /\ last.op = "on_account_created"
    /\ last.caller = Self
    /\ Len(last.results) = 2
    /\ last.ret = Panic
    /\ Pending # {}

-----------------------------------------------------------------------------
(* C10: create_account_advanced with no contract bytes, no full access keys *)
(* and no limited access keys fails before anything is issued (no request,  *)
(* no callback, no funds reserved, ledger untouched); with at least one of  *)
(* the three present the request and its callback are issued.               *)
C10_EmptyOptionsRejected ==
    /\ [][last'.op = "create_account_advanced" /\ last'.options = NoOptions
            => UNCHANGED committed]_vars
    /\ [](last.op = "create_account_advanced" =>
            IF last.options = NoOptions
            THEN last.ret = Panic /\ last.receipts = <<>>
            ELSE /\ last.ret = "promise"
                 /\ Head(last.receipts).act = "create_account"
                 /\ Scheduled(last.receipts) =
                        ThenAct("on_account_created", last.caller, last.amount))

C10_Witness ==
    /\ last.op = "create_account_advanced"
    /\ last.options = NoOptions
    /\ last.ret = Panic
    /\ NumClaims < MaxClaims
    /\ LedgerSum > 0

-----------------------------------------------------------------------------
(* C11: after a failed create-and-claim for key K the ledger entry of K is  *)
(* K's original balance exactly, and a further claim with K is a first      *)
(* attempt again: it issues the same request and the same continuation,     *)
(* takes the same entry out of the ledger and leaves an instance that       *)
(* differs from a first one in nothing, however many attempts failed        *)
(* before it.                                                               *)
FirstAttempt(k, id) ==
    <<CreateAccountAct(id), TransferAct(id, DropOf(k)),
      ThenAct("on_account_created_and_claimed", NoAccount, DropOf(k))>>

C11_RestoreThenRetry ==
    /\ RanCallback("on_account_created_and_claimed", "Failed")
        => accounts[last.pk] = Some(DropOf(last.pk))
    /\ last.op = "create_account_and_claim" /\ last.ret # Panic
        => /\ \E id \in NewIds : last.receipts = FirstAttempt(last.pk, id)
           /\ accounts[last.pk] = None
           /\ BagIn(Instance("claim", NoAccount, DropOf(last.pk), last.pk), claims)
    /\ \A b \in BagToSet(claims) :
            b.kind = "claim"
            => [b EXCEPT !.st = "RequestIssued", !.result = "NotReady"]
                   = Instance("claim", NoAccount, DropOf(b.signer), b.signer)

(* A claim made again after every earlier attempt with the key failed *)
C11_Witness ==
    /\ last.op = "create_account_and_claim"
    /\ last.ret = "promise"
    /\ CountOf(ClaimsOf(last.pk, {"ResolvedFailure"})) = MaxClaims - 1
    /\ ClaimsOf(last.pk, {"RequestIssued"}) # {}

-----------------------------------------------------------------------------
(* C12: the continuation of an instance runs exactly once and only after    *)
(* the creation request of the instance has resolved, and an instance whose *)
(* continuation has run makes no further transition: a step settles at most *)
(* one instance; it does so exactly if it is a continuation the contract    *)
(* scheduled, the instance it settles was resolved and not yet settled, and *)
(* no unresolved instance is touched; a settled instance stays as it is.    *)
NumIn(sts) == CountOf(InstancesIn(sts))

C12_ContinuationOnce ==
    [][ /\ \A b \in InstancesIn(Terminal) : CopiesIn(b, claims') >= CopiesIn(b, claims)
        /\ NumIn(Terminal)' \in {NumIn(Terminal), NumIn(Terminal) + 1}
        /\ (NumIn(Terminal)' = NumIn(Terminal) + 1)
            <=> (last'.op \in Callbacks /\ last'.caller = Self /\ Len(last'.results) = 1)
        /\ NumIn(Terminal)' = NumIn(Terminal) + 1
            => /\ NumIn({"RequestResolved"})' = NumIn({"RequestResolved"}) - 1
               /\ NumIn({"RequestIssued"})' = NumIn({"RequestIssued"})
               /\ \E b \in InstancesIn({"RequestResolved"}) :
                    /\ b.result = last'.results[1]
                    /\ (b.kind = "claim") <=> (last'.op = "on_account_created_and_claimed")
                    /\ claims' = Settle(b, last'.ret)
      ]_vars

(* A continuation has run while another instance, resolved as well, still  *)
(* waits for its own                                                      *)
C12_Witness ==
    /\ last.op = "on_account_created_and_claimed"
    /\ last.caller = Self
    /\ last.ret = "false"
    /\ NumIn(Terminal) = 1
    /\ NumIn({"RequestResolved"}) = MaxClaims - 1

-----------------------------------------------------------------------------
-----------------------------------------------------------------------------
(* C14: a query changes nothing: over a step of get_key_balance or          *)
(* get_key_information the ledger is what it was, key by key, and so are    *)
(* the instances, the refunds and the key deletions, also when the query    *)
(* runs between the request of a claim and its continuation.                *)
Queries == {"get_key_balance", "get_key_information"}

C14_QueriesReadOnly ==
    [][last'.op \in Queries
        => /\ \A k \in Keys : accounts'[k] = accounts[k]
           /\ claims' = claims
           /\ refunded' = refunded
           /\ deleted' = deleted]_vars

(* A query answered while a claim waits between request and continuation,  *)
(* its key out of the ledger and another key in it                         *)
C14_Witness ==
    /\ last.op = "get_key_balance"
    /\ last.ret = "value"
    /\ \E b \in Pending : b.kind = "claim" /\ b.signer # last.pk /\ accounts[b.signer] = None

-----------------------------------------------------------------------------
(* C15: create_account_advanced called by P with deposit A, once its        *)
(* options are accepted, issues a request that transfers exactly A to the   *)
(* new account and schedules the continuation with exactly (P, A); when the *)
(* creation fails, the refund of that continuation is exactly A, to P, and  *)
(* to no one else.                                                          *)
C15_ParameterThreading ==
    /\ [](last.op = "create_account_advanced" /\ last.ret # Panic =>
            \E id \in NewIds :
                /\ SubSeq(last.receipts, 1, 2) =
                        <<CreateAccountAct(id), TransferAct(id, last.amount)>>
                /\ Transferred(last.receipts, id) = last.amount
                /\ \A a \in AccountIds : Transferred(last.receipts, a) = 0
                /\ Scheduled(last.receipts).receiver = last.caller
                /\ Scheduled(last.receipts).amount = last.amount
                /\ BagIn(Instance("advanced", last.caller, last.amount, NoKey), claims))
    /\ [][RanCallback("on_account_created", "Failed")' =>
            \E b \in AdvancedOf(last'.pred, {"RequestResolved"}) :
                /\ b.amount = last'.amount
                /\ b.result = "Failed"
                /\ claims' = Settle(b, "false")
                /\ refunded' = [refunded EXCEPT ![b.pred] = @ + b.amount]]_vars

(* Two callers with different deposits, both creations failed, each caller *)
(* has its own deposit back                                                *)
C15_Witness ==
    /\ RanCallback("on_account_created", "Failed")
    /\ refunded["alice"] = 1
    /\ refunded["bob"] = 2
    /\ reserved = 3

-----------------------------------------------------------------------------
(* C16: the request of an accepted create_account_advanced is, in this      *)
(* order: create-account, transfer of the deposit, one add-full-access-key  *)
(* per full access key in the order given, one add-limited-access-key per   *)
(* limited key entry in the order given, with the entry's allowance,        *)
(* receiver and method names, and deploy-code if contract bytes were given; *)
(* the request is a function of the new account, the deposit and the        *)
(* options alone.                                                           *)
ExpectedRequest(id, amount, o) ==
    LET fk == IF is_some(o.full_access_keys) THEN unwrap(o.full_access_keys) ELSE <<>>
        lk == IF is_some(o.limited_access_keys) THEN unwrap(o.limited_access_keys) ELSE <<>>
        nf == 2 + Len(fk)
        nl == nf + Len(lk)
        n  == nl + (IF is_some(o.contract_bytes) THEN 1 ELSE 0)
    IN [i \in 1..n |->
          IF i = 1 THEN Act(id, "create_account", NoKey, 0, NoAccount, "")
          ELSE IF i = 2 THEN Act(id, "transfer", NoKey, amount, NoAccount, "")
          ELSE IF i <= nf THEN Act(id, "add_full_access_key", fk[i - 2], 0, NoAccount, "")
          ELSE IF i <= nl
          THEN Act(id, "add_access_key", lk[i - nf].public_key, lk[i - nf].allowance,
                   lk[i - nf].receiver_id, lk[i - nf].method_names)
          ELSE Act(id, "deploy_contract", NoKey, 0, NoAccount, unwrap(o.contract_bytes))]

C16_RequestConstruction ==
    last.op = "create_account_advanced" /\ last.ret # Panic =>
        \E id \in NewIds :
            /\ SubSeq(last.receipts, 1, Len(last.receipts) - 1)
                    = ExpectedRequest(id, last.amount, last.options)
            /\ Scheduled(last.receipts).act = "then"

(* A request with every kind of option: one full access key, two limited   *)
(* keys and contract bytes                                                 *)
C16_Witness ==
    /\ last.op = "create_account_advanced"
    /\ last.ret = "promise"
    /\ Len(last.receipts) = 7
    /\ last.receipts[4].act = "add_access_key" /\ last.receipts[4].pk = "k2"
    /\ last.receipts[5].act = "add_access_key" /\ last.receipts[5].pk = "k1"
    /\ last.receipts[6].act = "deploy_contract"

-----------------------------------------------------------------------------
(* C18: a step of on_account_created_and_claimed(amount) run as a scheduled *)
(* continuation with a failed result, in a call signed by key K, leaves     *)
(* ledger[K] equal to amount whatever the entry of K was before (the amount *)
(* is set, not added), and leaves the entry of every other key as it was.   *)
C18_RestoreOverwritesOneKey ==
    [][RanCallback("on_account_created_and_claimed", "Failed")' =>
        accounts' = [k \in Keys |-> IF k = last'.pk THEN Some(last'.amount)
                                    ELSE accounts[k]]]_vars

(* The failed continuation wrote 2 over an entry of 1 that an earlier       *)
(* failed continuation of the same key had written                          *)
C18_Witness ==
    /\ RanCallback("on_account_created_and_claimed", "Failed")
    /\ last.amount = 2
    /\ accounts[last.pk] = Some(2)
    /\ \E b \in ClaimsOf(last.pk, {"ResolvedFailure"}) : b.amount = 1

-----------------------------------------------------------------------------
(* C19: the continuations of two pending instances commute when the         *)
(* instances are two claims with distinct claiming keys, or an              *)
(* advanced-create and a claim: whatever the two creation requests resolve  *)
(* to, running the two continuations in either order ends with the same     *)
(* ledger, the same refunds and the same key deletions.                     *)

(* What the claim compares: the ledger, the refunds and the key deletions *)
Observed == [accounts |-> accounts, refunded |-> refunded, deleted |-> deleted]

(* The effect on s of the continuation of a kind run for invocation v *)
RunCallback(kind, v, s) ==
    IF kind = "advanced"
    THEN LET out == on_account_created_body(v.caller, v.results, v.pred, v.amount) IN
         [s EXCEPT !.refunded =
                [a \in AccountIds |-> s.refunded[a] + Transferred(out.receipts, a)]]
    ELSE LET r == on_account_created_and_claimed_body(v.caller, v.results, v.signer,
                                                      v.amount, s.accounts) IN
         [s EXCEPT !.accounts = r.ledger,
                   !.deleted = [k \in Keys |-> s.deleted[k]
                                               + KeyDeletions(r.out.receipts, k)]]

(* The continuations the host can still deliver for a pending instance: one *)
(* per result its request can have                                          *)
CallbacksOf(b) ==
    { Invocation(Self, <<r>>, b, b.pred, b.amount, b.signer) :
        r \in IF b.st = "RequestResolved" THEN {b.result} ELSE Results }

Independent(b, c) ==
    \/ b.kind = "claim" /\ c.kind = "claim" /\ b.signer # c.signer
    \/ b.kind # c.kind

C19_CallbacksCommute ==
    /\ [](\A b, c \in Pending :
            Independent(b, c) =>
                \A v \in CallbacksOf(b), w \in CallbacksOf(c) :
                    RunCallback(c.kind, w, RunCallback(b.kind, v, Observed))
                        = RunCallback(b.kind, v, RunCallback(c.kind, w, Observed)))
    /\ [][last'.op \in Callbacks /\ last'.caller = Self /\ Len(last'.results) = 1 =>
            Observed' = RunCallback(IF last'.op = "on_account_created"
                                    THEN "advanced" ELSE "claim",
                                    Invocation(Self, last'.results, NoInstance,
                                               last'.pred, last'.amount, last'.pk),
                                    Observed)]_vars

(* The continuations of two claims with distinct keys have both run, one    *)
(* restoring the entry of its key, the other deleting its key               *)
C19_Witness ==
    /\ RanCallback("on_account_created_and_claimed", "Failed")
    /\ NumIn(Terminal) = MaxClaims
    /\ \E b \in ClaimsOf(last.pk, {"ResolvedFailure"}) :
        \E c \in InstancesIn({"ResolvedSuccess"}) :
            /\ c.kind = "claim"
            /\ c.signer # b.signer
            /\ deleted[c.signer] = 1
            /\ accounts[b.signer] = Some(b.amount)

-----------------------------------------------------------------------------
(* C20: the ledger is empty after new; no step of an entry point of lib.rs  *)
(* removes a ledger entry, so the set of keys in the ledger never shrinks;  *)
(* and a key enters the ledger only over a step of                          *)
(* on_account_created_and_claimed run as a scheduled continuation with a    *)
(* failed result, which adds its signer key and no other.                   *)
KeysInLedger == { k \in Keys : is_some(accounts[k]) }

====
